---- MODULE Spec2Model ----
(***************************************************************************)
(* MotorGreenletEvent (motor/util.py): an Event-like class for greenlets.  *)
(* One event object, the IOLoop it was built with, the main greenlet the   *)
(* IOLoop runs on, and a bounded number of child greenlets that call       *)
(* set / clear / is_set / wait on the event.                               *)
(*                                                                         *)
(* Exactly one greenlet runs at a time (variable current).  A child runs   *)
(* until it switches to its parent inside wait or until it finishes; the   *)
(* main greenlet runs IOLoop callbacks and timers in between.              *)
(***************************************************************************)
EXTENDS Naturals, Sequences, FiniteSets, TLC

\* ------------------------------------------------------------- bounds
NumWorkers == 2        \* child greenlets
MaxCalls == 3          \* wait calls made by the child greenlets, all together

Workers == 1..NumWorkers
Main == 0              \* the greenlet the IOLoop runs on; it has no parent
Contexts == Workers \cup {Main}

\* timeout_seconds: None is <<>>, a number of seconds d is <<d>>
None == <<>>
TimeoutArgs == {None, <<0>>, <<1>>}

\* A timer handle returned by io_loop.add_timeout: one per wait call that
\* registers a timer, named by the greenlet and the number of its wait call.
Handles == Workers \X (1..(MaxCalls + 1))

VARIABLES
    flag,        \* self._flag
    waiters,     \* self._waiters: set of greenlets
    timeouts,    \* self._timeouts: set of timer handles
    callbacks,   \* io_loop: queue of callbacks added with add_callback;
                 \*   each entry is waiter.switch, written <<waiter, call>>
    timers,      \* io_loop: timers added with add_timeout, not yet run or removed
    state,       \* per child greenlet: "new", "running", "suspended", "dead"
    current,     \* greenlet.getcurrent()
    calls,       \* history: per child greenlet, the number of its wait calls
    res,         \* history: per child greenlet, for its latest wait call:
                 \*   whether it registered a timer (timed), and how often
                 \*   switch() was invoked for it by a callback of set (sig)
                 \*   and by on_timeout (tmo)
    spurious,    \* history: switch() was invoked for a wait call that had
                 \*   returned and been followed by another wait call
    cleared,     \* history: the greenlets with a callback in the queue since
                 \*   whose set() call clear() has been called
    last         \* history: the operation that produced this state

vars == <<flag, waiters, timeouts, callbacks, timers, state, current,
          calls, res, spurious, cleared, last>>

hist == <<calls, res, spurious, cleared>>

\* ------------------------------------------------------------- helpers

\* (variant: wait asserts the parent only where it is about to switch to it)
HasParent_late(c) == c \in Workers \/ flag

\* current.parent (line 59): every child greenlet is a child of the main one,
\* and the main greenlet has no parent
HasParent(c) == c \in Workers

Parent(c) == Main

\* the order in which a for loop visits a Python set is arbitrary
Orders(S) ==
    {s \in [1..Cardinality(S) -> S] :
        \A i, j \in 1..Cardinality(S) : i # j => s[i] # s[j]}

RECURSIVE Sum(_, _)
Sum(f, S) == IF S = {} THEN 0
             ELSE LET x == CHOOSE y \in S : TRUE IN f[x] + Sum(f, S \ {x})

TotalCalls == Sum(calls, Workers)

NoRes == [timed |-> FALSE, sig |-> 0, tmo |-> 0]

Queued == {callbacks[i][1] : i \in DOMAIN callbacks}

Op(op, c, n, a) == [op |-> op, ctx |-> c, call |-> n, arg |-> a]

\* greenlet.switch() of a child, called on the main greenlet: a suspended
\* child runs on; a finished one returns to the caller at once.
SwitchState(w) ==
    IF state[w] = "suspended" THEN [state EXCEPT ![w] = "running"] ELSE state

SwitchCurrent(w) ==
    IF state[w] = "suspended" THEN w ELSE current

\* ------------------------------------------------------------- __init__
Init ==
    /\ flag = FALSE
    /\ waiters = {}
    /\ timeouts = {}
    /\ callbacks = <<>>
    /\ timers = {}
    /\ state = [w \in Workers |-> "new"]
    /\ current = Main
    /\ calls = [w \in Workers |-> 0]
    /\ res = [w \in Workers |-> NoRes]
    /\ spurious = FALSE
    /\ cleared = {}
    /\ last = Op("init", Main, 0, None)

\* ------------------------------------------------------------- is_set
IsSet(c) ==
    /\ current = c
    /\ last' = Op("is_set", c, 0, <<flag>>)
    /\ UNCHANGED <<flag, waiters, timeouts, callbacks, timers, state, current, hist>>

\* ------------------------------------------------------------- set
\* (variant: set forgets self._flag)
SetFlag_kept == flag

\* line 44
SetFlag == TRUE

\* (variant: set forgets io_loop.remove_timeout)
RemoveTimeouts_kept(tm, ts) == tm

\* lines 45-47: io_loop.remove_timeout(timeout) for every timeout
RemoveTimeouts(tm, ts) == tm \ ts

\* (variant: set forgets to empty self._timeouts)
SetTimeouts_kept(ts) == ts

\* line 45: self._timeouts = set()
SetTimeouts(ts) == {}

\* (variant: set forgets to empty self._waiters)
SetWaiters_kept(ws) == ws

\* line 49: self._waiters = set()
SetWaiters(ws) == {}

\* (variant: set wakes one waiter only)
SetCallbacks_one(q, order) ==
    IF order = <<>> THEN q ELSE Append(q, <<order[1], calls[order[1]]>>)

\* lines 50-52: io_loop.add_callback(waiter.switch) for every waiter;
\* the running greenlet and every greenlet's state are left alone
SetCallbacks(q, order) ==
    q \o [i \in 1..Len(order) |-> <<order[i], calls[order[i]]>>]

\* (variant: set calls waiter.switch() itself)
SetState_inline(ws) == [w \in Workers |-> IF w \in ws THEN "running" ELSE state[w]]

SetState(ws) == state

SetCurrent(ws) == current

Set(c) ==
    /\ current = c
    /\ \E order \in Orders(waiters) :
        /\ flag' = SetFlag
        /\ timers' = RemoveTimeouts(timers, timeouts)
        /\ timeouts' = SetTimeouts(timeouts)
        /\ waiters' = SetWaiters(waiters)
        /\ callbacks' = SetCallbacks(callbacks, order)
        /\ state' = SetState(waiters)
        /\ current' = SetCurrent(waiters)
    /\ last' = Op("set", c, 0, <<flag>>)
    /\ UNCHANGED hist

\* ------------------------------------------------------------- clear
\* (variant: clear does nothing)
ClearFlag_kept == flag

\* line 55
ClearFlag == FALSE

\* (variant: clear also forgets the waiters)
ClearWaiters_reset(ws) == {}

\* lines 54-55: clear assigns self._flag and nothing else
ClearWaiters(ws) == ws

Clear(c) ==
    /\ current = c
    /\ flag' = ClearFlag
    /\ waiters' = ClearWaiters(waiters)
    /\ cleared' = Queued
    /\ last' = Op("clear", c, 0, None)
    /\ UNCHANGED <<timeouts, callbacks, timers, state, current,
                   calls, res, spurious>>

\* ------------------------------------------------------------- wait
\* (variant: wait does not look at self._flag)
WaitSuspends_always == TRUE

\* line 61: if not self._flag
WaitSuspends == ~flag

\* (variant: wait resets the flag it found set, as an auto-reset event does)
WaitFlag_reset == FALSE

\* lines 57-75: wait reads self._flag and never assigns it
WaitFlag == flag

\* (variant: if timeout_seconds, which takes 0 for no timeout)
HasTimeout_truthy(t) == t # None /\ t # <<0>>

\* line 70: if timeout_seconds is not None
HasTimeout(t) == t # None

\* (variant: wait forgets self._waiters.add)
WaitWaiters_none(w) == waiters

\* line 62
WaitWaiters(w) == waiters \cup {w}

\* lines 71-74
WaitTimers(h) == timers \cup {h}

WaitTimeouts(h) == timeouts \cup {h}

\* line 75: parent.switch()
WaitState(w) == [state EXCEPT ![w] = "suspended"]

Wait(c, t) ==
    /\ current = c
    /\ IF ~HasParent(c)
       THEN \* line 60: assert parent
            /\ last' = Op("AssertionError", c, 0, t)
            /\ UNCHANGED <<flag, waiters, timeouts, callbacks, timers, state,
                           current, hist>>
       ELSE /\ TotalCalls < MaxCalls
            /\ LET n == IF c \in Workers THEN calls[c] + 1 ELSE 0
                   h == <<c, n>>
               IN  /\ IF WaitSuspends
                      THEN /\ waiters' = WaitWaiters(c)
                           /\ IF HasTimeout(t)
                              THEN /\ timers' = WaitTimers(h)
                                   /\ timeouts' = WaitTimeouts(h)
                              ELSE UNCHANGED <<timers, timeouts>>
                           /\ state' = WaitState(c)
                           /\ current' = Parent(c)
                      ELSE UNCHANGED <<waiters, timers, timeouts, state, current>>
                   /\ IF c \in Workers
                      THEN /\ calls' = [calls EXCEPT ![c] = n]
                           /\ res' = [res EXCEPT ![c] =
                                [NoRes EXCEPT !.timed = WaitSuspends /\ HasTimeout(t)]]
                      ELSE UNCHANGED <<calls, res>>
                   /\ UNCHANGED <<spurious, cleared>>
                   /\ last' = Op("wait", c, n, t)
            /\ flag' = WaitFlag
            /\ UNCHANGED callbacks

\* ------------------------------------------------------------- on_timeout
\* (variant: on_timeout leaves the greenlet in self._waiters)
TimeoutWaiters_kept(w) == waiters

\* line 66: self._waiters.remove(current)
TimeoutWaiters(w) == waiters \ {w}

\* (variant: on_timeout leaves its handle in self._timeouts)
TimeoutTimeouts_kept(h) == timeouts

\* line 67: self._timeouts.remove(timeout)
TimeoutTimeouts(h) == timeouts \ {h}

\* The IOLoop runs a timer's callback on the main greenlet; a timer runs once.
OnTimeout(h) ==
    /\ current = Main
    /\ h \in timers
    /\ timers' = timers \ {h}
    /\ LET w == h[1]
           n == h[2]
       IN  IF w \notin waiters
           THEN \* line 66 raises KeyError
                /\ last' = Op("KeyError", w, n, None)
                /\ UNCHANGED <<waiters, timeouts, state, current, hist>>
           ELSE IF h \notin timeouts
           THEN \* line 67 raises KeyError
                /\ waiters' = TimeoutWaiters(w)
                /\ last' = Op("KeyError", w, n, None)
                /\ UNCHANGED <<timeouts, state, current, hist>>
           ELSE /\ waiters' = TimeoutWaiters(w)
                /\ timeouts' = TimeoutTimeouts(h)
                /\ state' = SwitchState(w)
                /\ current' = SwitchCurrent(w)
                /\ res' = IF n = calls[w] THEN [res EXCEPT ![w].tmo = @ + 1] ELSE res
                /\ spurious' = (spurious \/ n # calls[w])
                /\ UNCHANGED <<calls, cleared>>
                /\ last' = Op("on_timeout", w, n, None)
    /\ UNCHANGED <<flag, callbacks>>

\* ------------------------------------------------------------- waiter.switch
\* The IOLoop runs the oldest callback added by set (line 52) on the main
\* greenlet.
RunCallback ==
    /\ current = Main
    /\ callbacks # <<>>
    /\ LET w == Head(callbacks)[1]
           n == Head(callbacks)[2]
       IN  /\ callbacks' = Tail(callbacks)
           /\ state' = SwitchState(w)
           /\ current' = SwitchCurrent(w)
           /\ res' = IF n = calls[w] THEN [res EXCEPT ![w].sig = @ + 1] ELSE res
           /\ spurious' = (spurious \/ n # calls[w])
           /\ cleared' = cleared \ {w}
           /\ last' = Op("switch", w, n, <<w \in cleared>>)
           /\ UNCHANGED calls
    /\ UNCHANGED <<flag, waiters, timeouts, timers>>

\* ------------------------------------------------------------- greenlets
\* A child greenlet is started from the main greenlet.
Start(w) ==
    /\ current = Main
    /\ state[w] = "new"
    /\ state' = [state EXCEPT ![w] = "running"]
    /\ current' = w
    /\ last' = Op("start", w, 0, None)
    /\ UNCHANGED <<flag, waiters, timeouts, callbacks, timers, hist>>

\* A child greenlet finishes; control returns to its parent.
Finish(w) ==
    /\ current = w
    /\ w \in Workers
    /\ state' = [state EXCEPT ![w] = "dead"]
    /\ current' = Parent(w)
    /\ last' = Op("finish", w, 0, None)
    /\ UNCHANGED <<flag, waiters, timeouts, callbacks, timers, hist>>

\* ------------------------------------------------------------- specification
Next ==
    \/ \E c \in Contexts : IsSet(c)
    \/ \E c \in Contexts : Set(c)
    \/ \E c \in Contexts : Clear(c)
    \/ \E c \in Contexts, t \in TimeoutArgs : Wait(c, t)
    \/ \E h \in Handles : OnTimeout(h)
    \/ RunCallback
    \/ \E w \in Workers : Start(w)
    \/ \E w \in Workers : Finish(w)

Spec == Init /\ [][Next]_vars

\* The IOLoop eventually runs every callback and every timer that was not
\* removed; a child greenlet eventually yields or finishes.
FairSpec ==
    /\ Spec
    /\ WF_vars(RunCallback)
    /\ \A h \in Handles : WF_vars(OnTimeout(h))
    /\ \A w \in Workers : WF_vars(Finish(w))

\* ------------------------------------------------------------- properties

\* a step that is a call of wait by a child greenlet / a call of set
WaitStep == last'.op = "wait" /\ last' # last

SetStep == last'.op = "set"

Suspended == {w \in Workers : state[w] = "suspended"}

\* C1: every wait call that suspended has switch() invoked for it at most
\* once, counting the callbacks added by set and the timeout callbacks
\* together: never by both paths, never twice by one path, and never after
\* the call has returned.
C1_ResumedAtMostOnce ==
    /\ ~spurious
    /\ \A w \in Workers : res[w].sig + res[w].tmo <= 1

\* one greenlet was resumed by a callback of set, another by its timeout
C1_Witness ==
    \E w, v \in Workers : res[w].sig = 1 /\ res[v].tmo = 1

\* C2: every greenlet that is suspended in wait when set() returns is
\* eventually resumed, whatever is called afterwards, provided the IOLoop
\* runs its callbacks.
C2_SignalResumesAll ==
    \A w \in Workers :
        (last.op = "set" /\ state[w] = "suspended") ~> (state[w] # "suspended")

\* set() has just returned with two greenlets suspended
C2_Witness ==
    last.op = "set" /\ Cardinality(Suspended) >= 2 /\ Suspended \subseteq Queued

\* C3: set() resumes no waiter itself: across a call of set every greenlet
\* keeps its state and the caller keeps running, every waiter gets a callback
\* in the IOLoop's queue, and a greenlet with a queued callback leaves its
\* suspension only in the step that runs that callback.
C3_SetDefers ==
    /\ [][SetStep => /\ state' = state
                     /\ current' = current
                     /\ \A w \in waiters : <<w, calls[w]>> \in
                            {callbacks'[i] : i \in DOMAIN callbacks'}]_vars
    /\ [][\A w \in Queued :
            state'[w] # state[w] => /\ last'.op = "switch"
                                    /\ last'.ctx = w
                                    /\ current = Main]_vars

\* set() has returned, its caller is still running, a waiter is queued
C3_Witness ==
    /\ last.op = "set"
    /\ current = last.ctx
    /\ \E w \in Queued : state[w] = "suspended"

\* C4: wait called by a child greenlet while the flag is set returns at once:
\* the caller keeps running, and waiters, timers, timeouts and the flag are
\* as before.
C4_WaitWhenSetReturns ==
    [][(WaitStep /\ flag) =>
          /\ current' = current
          /\ state' = state
          /\ waiters' = waiters
          /\ timers' = timers
          /\ timeouts' = timeouts
          /\ flag']_vars

\* wait with a timeout has just returned at once
C4_Witness ==
    /\ last.op = "wait"
    /\ last.arg # None
    /\ flag
    /\ current = last.ctx
    /\ state[last.ctx] = "running"

\* on_timeout of handle h has just resumed its greenlet
TimedOut(h) == last.op = "on_timeout" /\ last.ctx = h[1] /\ last.call = h[2]

\* C5: when set() is called while a waiter's timer is pending, set removes
\* the timer from the IOLoop and empties timeouts, the timer's callback never
\* runs (it would raise KeyError, or resume the waiter a second time), and the
\* waiter is resumed exactly once, by the callback set added.
C5_SignalBeatsTimer ==
    /\ [][SetStep => timeouts' = {} /\ timers' \cap timeouts = {}]_vars
    /\ [](last.op # "KeyError")
    /\ [](\A w \in Workers :
            (res[w].timed /\ res[w].sig > 0) => (res[w].sig = 1 /\ res[w].tmo = 0))
    /\ \A w \in Workers :
            (last.op = "set" /\ res[w].timed /\ state[w] = "suspended")
                ~> (state[w] = "running" /\ res[w].sig = 1 /\ res[w].tmo = 0)

\* set() has just returned and a waiter that had a timer is queued
C5_Witness ==
    /\ last.op = "set"
    /\ \E w \in Queued : res[w].timed /\ state[w] = "suspended"
    /\ timers = {}

\* C6: a timer registered by wait and not removed by a set() eventually
\* runs; when it has run, its greenlet is running again and is out of
\* waiters, its handle is out of timeouts and of the IOLoop, and this was the
\* only time the timer ran.
C6_TimeoutResumes ==
    /\ \A h \in Handles : (h \in timers) ~> (TimedOut(h) \/ last.op = "set")
    /\ [](last.op = "on_timeout" =>
            /\ last.ctx \notin waiters
            /\ <<last.ctx, last.call>> \notin timeouts
            /\ <<last.ctx, last.call>> \notin timers
            /\ state[last.ctx] = "running"
            /\ res[last.ctx].tmo = 1)
    /\ [](\A w \in Workers : res[w].tmo > 0 => <<w, calls[w]>> \notin timeouts)
    /\ [](last.op # "KeyError")

\* a timeout has resumed a greenlet while the flag was never set
C6_Witness ==
    /\ last.op = "on_timeout"
    /\ res[last.ctx].tmo = 1
    /\ res[last.ctx].sig = 0
    /\ timeouts = {}
    /\ callbacks = <<>>

\* C7: a timer is pending in the IOLoop only while the flag is clear, so a
\* greenlet resumed by its timeout finds is_set() false.
C7_TimeoutSeesClear ==
    /\ timers # {} => ~flag
    /\ last.op = "on_timeout" => ~flag

\* a greenlet has just been resumed by its timeout and is running
C7_Witness ==
    /\ last.op = "on_timeout"
    /\ current = last.ctx
    /\ state[last.ctx] = "running"

\* C8 as stated: a greenlet resumed by a callback of set finds is_set() true
\* and a greenlet resumed by its timeout finds it false, in every
\* interleaving.
C8_ResumeShowsOutcome ==
    /\ last.op = "switch" => flag
    /\ last.op = "on_timeout" => ~flag

\* C8 as amended: a greenlet resumed by its timeout finds is_set() false, and
\* a greenlet resumed by a callback of set finds it true unless clear() was
\* called between that set() and the run of the callback.
C8_OutcomeUnlessCleared ==
    /\ (last.op = "switch" /\ last.arg = <<FALSE>>) => flag
    /\ last.op = "on_timeout" => ~flag

\* a greenlet resumed by a callback with no clear() in between, after another
\* greenlet timed out
C8_Witness ==
    /\ last.op = "switch"
    /\ last.arg = <<FALSE>>
    /\ state[last.ctx] = "running"
    /\ \E v \in Workers : res[v].tmo = 1

\* C9: when on_timeout resumes its greenlet, the greenlet is already out of
\* waiters and the handle out of timeouts; so a wait call that timed out has
\* no entry left that a later set() could act on, and no callback is ever
\* queued for it.
C9_TimeoutRemovesFirst ==
    /\ last.op = "on_timeout" =>
            /\ last.ctx \notin waiters
            /\ <<last.ctx, last.call>> \notin timeouts
    /\ \A w \in Workers :
            res[w].tmo > 0 => /\ w \notin waiters
                              /\ w \notin Queued
                              /\ res[w].sig = 0

\* the greenlet resumed by its timeout has called set() itself
C9_Witness ==
    /\ last.op = "set"
    /\ last.ctx \in Workers
    /\ res[last.ctx].tmo = 1
    /\ current = last.ctx

\* C10: a wait call made while the flag is clear, and every wait call made
\* right after clear(), puts the caller in waiters and suspends it; a greenlet
\* in waiters stays suspended with no callback queued, and a suspended
\* greenlet runs again only through a callback of set or its own timeout,
\* for the wait call it is in.
C10_Reusable ==
    /\ [][(WaitStep /\ (~flag \/ last.op = "clear")) =>
            /\ last'.ctx \in waiters'
            /\ state'[last'.ctx] = "suspended"
            /\ current' = Main]_vars
    /\ [](\A w \in waiters : state[w] = "suspended" /\ w \notin Queued)
    /\ [][\A w \in Workers :
            (state[w] = "suspended" /\ state'[w] # "suspended") =>
                /\ last'.op \in {"switch", "on_timeout"}
                /\ last'.ctx = w
                /\ last'.call = calls[w]]_vars

\* after set() and clear(), with a callback of that set still queued, a
\* greenlet's second wait call has suspended it
C10_Witness ==
    /\ last.op = "wait"
    /\ calls[last.ctx] >= 2
    /\ state[last.ctx] = "suspended"
    /\ last.ctx \in waiters
    /\ Queued # {}

\* C11: a callback that set() queued acts only on the wait call that was in
\* waiters when that set() ran: every queued callback is for its greenlet's
\* latest wait call, in which the greenlet is still suspended; a wait call
\* adds nothing to the queue and its caller has no callback queued; with the
\* flag set it returns at once, and with the flag clear the caller joins
\* waiters, which it leaves only in a later set() or its own timeout.
C11_NoStaleResume ==
    /\ [](\A i \in DOMAIN callbacks :
            /\ callbacks[i][2] = calls[callbacks[i][1]]
            /\ state[callbacks[i][1]] = "suspended"
            /\ callbacks[i][1] \notin waiters)
    /\ [][WaitStep =>
            /\ callbacks' = callbacks
            /\ last'.ctx \notin Queued
            /\ flag => state'[last'.ctx] = "running"
            /\ ~flag => last'.ctx \in waiters']_vars
    /\ [][\A w \in waiters :
            w \notin waiters' =>
                \/ last'.op = "set"
                \/ /\ last'.op = "on_timeout"
                   /\ last'.ctx = w
                   /\ last'.call = calls[w]]_vars
    /\ [][last'.op = "switch" =>
            /\ last'.call = calls[last'.ctx]
            /\ state[last'.ctx] = "suspended"
            /\ last'.ctx \notin waiters]_vars

\* a callback of an earlier set() has run while a greenlet that called wait
\* after that set() and a clear() is still suspended in waiters
C11_Witness ==
    /\ last.op = "switch"
    /\ waiters # {}
    /\ \A v \in waiters : state[v] = "suspended" /\ res[v].sig = 0

\* C12: wait called on the main greenlet, which has no parent, raises
\* AssertionError whether or not the flag is set, and changes nothing: the
\* flag, waiters, timeouts, the IOLoop's timers and callbacks, and the
\* running greenlet are as before.
C12_WaitNeedsParent ==
    [][(current = Main /\ last'.ctx = Main
            /\ last'.op \in {"wait", "AssertionError"}) =>
          /\ last'.op = "AssertionError"
          /\ flag' = flag
          /\ waiters' = waiters
          /\ timeouts' = timeouts
          /\ timers' = timers
          /\ callbacks' = callbacks
          /\ state' = state
          /\ current' = current]_vars

\* wait has failed on the main greenlet while the flag was set
C12_Witness ==
    /\ last.op = "AssertionError"
    /\ last.ctx = Main
    /\ flag

\* C13: whenever the flag is set, waiters and timeouts are empty; the event
\* starts clear with no waiters and no timeouts.
C13_SetMeansEmpty ==
    /\ flag => (waiters = {} /\ timeouts = {})
    /\ last.op = "init" => (~flag /\ waiters = {} /\ timeouts = {})

\* the flag is set, and a waiter that had a timer is queued
C13_Witness ==
    /\ flag
    /\ \E w \in Queued : res[w].timed

\* C14: every handle in timeouts is the handle of the latest wait call of a
\* greenlet that is in waiters, and no greenlet has two handles there; a
\* handle enters timeouts in the wait step in which its greenlet enters
\* waiters, and leaves it in the set step or the timeout step in which its
\* greenlet leaves waiters.
C14_TimeoutsPairWaiters ==
    /\ [](\A h \in timeouts :
            /\ h[1] \in waiters
            /\ h[2] = calls[h[1]]
            /\ res[h[1]].timed)
    /\ [](\A h1, h2 \in timeouts : h1[1] = h2[1] => h1 = h2)
    /\ [][\A h \in Handles :
            /\ (h \in timeouts' /\ h \notin timeouts) =>
                    /\ WaitStep
                    /\ last'.ctx = h[1]
                    /\ h[1] \notin waiters
                    /\ h[1] \in waiters'
            /\ (h \in timeouts /\ h \notin timeouts') =>
                    /\ h[1] \in waiters
                    /\ h[1] \notin waiters'
                    /\ \/ last'.op = "set"
                       \/ /\ last'.op = "on_timeout"
                          /\ last'.ctx = h[1]
                          /\ last'.call = h[2]]_vars

\* two greenlets wait, each with its own timer
C14_Witness ==
    /\ Cardinality(timeouts) >= 2
    /\ Cardinality(waiters) >= 2

\* C15: a greenlet is in waiters exactly while it is suspended in wait with
\* no callback queued for it (and none run, no timeout run, for that call);
\* it enters waiters only in its own wait step, once per call, and leaves
\* only in a set step or its own timeout step.
C15_WaitersAreSuspended ==
    /\ [](\A w \in Workers :
            w \in waiters <=> (state[w] = "suspended" /\ w \notin Queued))
    /\ [](\A w \in waiters : res[w].sig = 0 /\ res[w].tmo = 0)
    /\ [][\A w \in Workers :
            /\ (w \notin waiters /\ w \in waiters') =>
                    /\ WaitStep
                    /\ last'.ctx = w
                    /\ calls'[w] = calls[w] + 1
            /\ (w \in waiters /\ w \notin waiters') =>
                    \/ last'.op = "set"
                    \/ last'.op = "on_timeout" /\ last'.ctx = w]_vars

\* one greenlet is in waiters while another, out of waiters, is still
\* suspended with its callback queued
C15_Witness ==
    /\ waiters # {}
    /\ \E v \in Queued : state[v] = "suspended" /\ v \notin waiters

\* C16: the flag becomes true only in a set step and false only in a clear
\* step; every other step (wait, is_set, a timeout, a callback, a failed
\* assertion) leaves it as it was.
C16_FlagOnlySetClear ==
    [][/\ (~flag /\ flag') => last'.op = "set"
       /\ (flag /\ ~flag') => last'.op = "clear"
       /\ last'.op \notin {"set", "clear"} => flag' = flag]_vars

\* a callback has resumed a greenlet and the flag is still set
C16_Witness ==
    /\ last.op = "switch"
    /\ flag
    /\ current = last.ctx

\* C17: clear leaves the flag false and changes nothing else (waiters,
\* timeouts, the IOLoop's timers and callbacks, every greenlet), and calling
\* clear again in the state it leaves would assign the flag the value it has.
C17_ClearOnlyFlag ==
    /\ [](last.op = "clear" => (~flag /\ ClearFlag = flag))
    /\ [][last'.op = "clear" =>
            /\ waiters' = waiters
            /\ timeouts' = timeouts
            /\ timers' = timers
            /\ callbacks' = callbacks
            /\ state' = state
            /\ current' = current]_vars

\* clear has just been called with a waiter, a timer and a callback pending
C17_Witness ==
    /\ last.op = "clear"
    /\ waiters # {}
    /\ timeouts # {}
    /\ callbacks # <<>>

\* C18: set called while the flag is already set changes nothing: the flag,
\* waiters, timeouts, the IOLoop's timers and its callback queue, and every
\* greenlet are as before.
C18_SetIdempotent ==
    [][(flag /\ last'.op = "set") =>
          /\ flag' = flag
          /\ waiters' = waiters
          /\ timeouts' = timeouts
          /\ timers' = timers
          /\ callbacks' = callbacks
          /\ state' = state
          /\ current' = current]_vars

\* set has been called with the flag already set, while the callbacks of
\* the first set are still queued
C18_Witness ==
    /\ last.op = "set"
    /\ last.arg = <<TRUE>>
    /\ callbacks # <<>>

\* C19: a wait step registers a timer exactly when the flag is clear and
\* timeout_seconds is not None, 0 included: the timer is the call's own
\* handle, added to the IOLoop and to timeouts; otherwise both are left
\* alone.  With the flag clear the caller joins waiters and suspends whatever
\* the timeout is, and a call that registered no timer is never resumed by a
\* timeout.
C19_TimerIffTimeout ==
    /\ [][WaitStep =>
            LET h == <<last'.ctx, last'.call>> IN
            IF ~flag /\ last'.arg # None
            THEN /\ h \notin timers
                 /\ timers' = timers \cup {h}
                 /\ timeouts' = timeouts \cup {h}
            ELSE /\ timers' = timers
                 /\ timeouts' = timeouts]_vars
    /\ [][(WaitStep /\ ~flag) =>
            /\ waiters' = waiters \cup {last'.ctx}
            /\ state'[last'.ctx] = "suspended"]_vars
    /\ [](\A w \in Workers :
            ~res[w].timed => (res[w].tmo = 0 /\ <<w, calls[w]>> \notin timers))

\* wait(0) has registered a timer and suspended its caller
C19_Witness ==
    /\ last.op = "wait"
    /\ last.arg = <<0>>
    /\ <<last.ctx, last.call>> \in timers
    /\ <<last.ctx, last.call>> \in timeouts
    /\ state[last.ctx] = "suspended"

\* C20: a timer pending in the IOLoop always has its handle in timeouts and
\* its greenlet in waiters, so on_timeout never raises KeyError; when it runs
\* it removes that one greenlet and that one handle, and leaves the other
\* waiters, the other timers and the callback queue as they were.
C20_TimeoutFindsEntries ==
    /\ [](last.op # "KeyError")
    /\ [](\A h \in timers : h \in timeouts /\ h[1] \in waiters)
    /\ [][last'.op = "on_timeout" =>
            LET h == <<last'.ctx, last'.call>> IN
            /\ h \in timers /\ h \in timeouts /\ h[1] \in waiters
            /\ waiters' = waiters \ {h[1]}
            /\ timeouts' = timeouts \ {h}
            /\ timers' = timers \ {h}
            /\ callbacks' = callbacks
            /\ \A v \in Workers \ {h[1]} : state'[v] = state[v]]_vars

\* a timeout has run while another greenlet waits with its own timer
C20_Witness ==
    /\ last.op = "on_timeout"
    /\ waiters # {}
    /\ timers # {}
    /\ timers = timeouts

TypeOK ==
    /\ flag \in BOOLEAN
    /\ waiters \subseteq Workers
    /\ timeouts \subseteq Handles
    /\ timers \subseteq Handles
    /\ current \in Contexts
    /\ \A w \in Workers : state[w] \in {"new", "running", "suspended", "dead"}
    /\ TotalCalls <= MaxCalls
====
